---- MODULE Spec2Model ----
(***************************************************************************)
(* Session bootstrap, auth-event listener, Profile Loader and password-    *)
(* setup completion of the AuthProvider (src/contexts/AuthContext.tsx),    *)
(* together with the backend state they read and write, the screens that  *)
(* route on the provider's state, and the invite endpoint (api/invite.ts). *)
(* Further specifications over the same variables follow one component    *)
(* each while the others rest: the earlier revisions of the provider with *)
(* a startup safety timer (TimerSpec), the admin users screen (UsersSpec), *)
(* request approval (RequestsSpec) and the my-locations actions            *)
(* (LocationsSpec).  RaceSpec is Spec with the history of overlapping     *)
(* loader writes kept.                                                     *)
(*                                                                         *)
(* Every `await` of the source is a suspension point: the request is in    *)
(* flight in one state and its continuation (up to the next await or the   *)
(* return) is one action.  Outcomes of external calls (data, error,        *)
(* exception) are chosen by the action's \E.                               *)
(***************************************************************************)
EXTENDS Integers, FiniteSets, Sequences, Bags, TLC

\* ---------------------------------------------------------------- bounds
MaxRuns == 2           \* loadProfileData calls that may be in flight at once
MaxShort == 2          \* length of the e-mail lists enumerated entry by entry

\* identities known to the auth service: user 1 is the account under study,
\* in any of the shapes of spec section 4.2; user 2 is an established member
\* of another organization (the inviter, or another account on the device)
Users == {1, 2}
Orgs  == {11, 12}       \* organization ids; user u's organization is 10 + u

\* ---------------------------------------------------------------- values
\* null for ids (session, user, organization, metadata fields) is 0
NoProfile == [id |-> 0, organization_id |-> 0, role |-> "none"]

\* user_metadata bag of a User (spec section 3): the keys the code inspects
NoMeta == [invited_by |-> 0, organization_id |-> 0, invited_role |-> "none"]

\* the metadata shapes user 1 can have been created with: signed up with a
\* new organization (no key), signed up with an invite link (organization_id),
\* invited by e-mail by user 2 (invited_by, invited_role, organization_id or not)
MetaShapes ==
    { [invited_by |-> i, organization_id |-> o, invited_role |-> (IF i # 0 THEN "user" ELSE "none")]
        : i \in {0, 2}, o \in {0, 11} }


\* history of the last step: the operation that returned (op), for whom, how
\* it ended (end; cps: the error completePasswordSetup returned, "ok" for null)
NoLast == [op |-> "none", userId |-> 0, end |-> "none", hadRow |-> FALSE,
           inserted |-> FALSE, clean |-> FALSE, afterFail |-> FALSE, cps |-> "none",
           raced |-> "none"]

\* ---------------------------------------------------------------- invite endpoint values
\* `if (emails.length > 10)` (api/invite.ts:59)
MaxInvites == 10

\* a string is the sequence of its characters; the alphabet has a space, an
\* upper-case and a lower-case letter and the at sign
Chars == {" ", "A", "a", "@"}

\* an element of the `emails` array: a string, or a JSON value that is no string
Str(cs) == [type |-> "string", chars |-> cs]
NotAString == [type |-> "number", chars |-> <<>>]

\* the entries requests are built from: an address, an address with blanks
\* and upper case around it, a word without '@', a blank, the empty string,
\* a number
EmailPool ==
    { Str(<<"a", "@", "a">>), Str(<<" ", "A", "@", " ">>), Str(<<"a">>), Str(<<" ">>),
      Str(<<>>), NotAString }

\* String.prototype.trim: leading and trailing white space removed
RECURSIVE TrimStart(_)
TrimStart(cs) == IF cs # <<>> /\ Head(cs) = " " THEN TrimStart(Tail(cs)) ELSE cs

RECURSIVE TrimEnd(_)
TrimEnd(cs) == IF cs # <<>> /\ cs[Len(cs)] = " " THEN TrimEnd(SubSeq(cs, 1, Len(cs) - 1)) ELSE cs

Trim(cs) == TrimEnd(TrimStart(cs))

\* String.prototype.toLowerCase
ToLowerCase(cs) == IF cs = <<>> THEN <<>> ELSE [i \in 1..Len(cs) |-> IF cs[i] = "A" THEN "a" ELSE cs[i]]

\* String.prototype.includes for a single character
Includes(cs, c) == \E i \in 1..Len(cs) : cs[i] = c

\* the lists of MaxInvites and MaxInvites + 1 entries: words without '@'
\* followed by one entry of the pool
Padded(e, n) == [i \in 1..n |-> IF i < n THEN Str(<<"a">>) ELSE e]

EmailLists ==
    UNION {[1..n -> EmailPool] : n \in 0..MaxShort}
      \cup {Padded(e, n) : e \in EmailPool, n \in {MaxInvites, MaxInvites + 1}}

\* req.body.emails: undefined, a truthy value that is no array, or an array
EmailsValues ==
    {[kind |-> k, list |-> <<>>] : k \in {"missing", "notArray"}}
      \cup {[kind |-> "array", list |-> l] : l \in EmailLists}

\* req.body: absent (no body was sent, or it is JSON null), or an object with
\* `emails` and possibly keys of its own choosing for the invite's metadata
NoBody == [present |-> FALSE, emails |-> [kind |-> "missing", list |-> <<>>],
           organization_id |-> 0, invited_role |-> "none"]

Bodies ==
    {NoBody} \cup
    {[present |-> TRUE, emails |-> v, organization_id |-> o,
      invited_role |-> (IF o # 0 THEN "admin" ELSE "none")] : v \in EmailsValues, o \in {0} \cup Orgs}

\* the Authorization header: absent, another scheme, or 'Bearer ' and a token;
\* token u is the access token of user u, token 0 resolves to no user
Authorizations ==
    {[scheme |-> "none", token |-> 0], [scheme |-> "Basic", token |-> 2]}
      \cup {[scheme |-> "Bearer", token |-> t] : t \in {0} \cup Users}

Requests ==
    {[method |-> m, authorization |-> a, body |-> b] :
        m \in {"OPTIONS", "GET", "POST"}, a \in Authorizations, b \in Bodies}

\* an invocation of the handler: position, request, the locals user, profile,
\* the loop index and results, the inviteUserByEmail calls made, the response
InvIdle ==
    [pc |-> "idle", req |-> [method |-> "none", authorization |-> [scheme |-> "none", token |-> 0],
                             body |-> NoBody],
     user |-> 0, profile |-> NoProfile, i |-> 0, results |-> <<>>, calls |-> <<>>,
     status |-> 0, error |-> "none"]

\* ---------------------------------------------------------------- screens, earlier revisions
\* the revisions of AuthProvider with a startup safety timer: "5000"
\* (unnamed/part_003) and "8000" (app/(auth)/_layout.tsx)
Revisions == {"5000", "8000"}

\* fetchUserData calls in flight at a time
MaxFetches == 2

\* Session values: none (0), the session of user 1 (1), and that session
\* after a token refresh (2); session.user of a session
SessionUser(sess) == IF sess = 0 THEN 0 ELSE 1

\* their useState initial value (part_003:29-36, _layout.tsx:56-63)
OldInitial ==
    [session |-> 0, user |-> 0, profile |-> 0, organization |-> 0,
     loading |-> TRUE, initialized |-> FALSE]

\* what a fetchUserData(userId) call resolves to (part_003:39-82): profile and
\* organization ("both"), the profile alone after orgError ("profile"), or
\* neither after profileError, the 8000 ms profile timeout or a throw ("none")
FetchResults == {"both", "profile", "none"}

FetchedProfile(u, res) == IF res = "none" THEN 0 ELSE u

FetchedOrganization(u, res) == IF res = "both" THEN 11 ELSE 0

\* the provider of revision rev after its effect ran (part_003:85-172): the
\* timer is armed, getSession is pending, the listener is subscribed.
\* boot: how initializeAuth ended, fetches: fetchUserData calls in flight
\* with the session they were started for
OldStart(rev) ==
    [rev |-> rev, state |-> OldInitial, mounted |-> TRUE, initPc |-> "fetching",
     initSession |-> 0, timer |-> "armed", fetches |-> EmptyBag, authSession |-> 0,
     boot |-> "pending"]

\* no such provider is mounted
OldIdle == [OldStart("none") EXCEPT !.mounted = FALSE, !.initPc = "dropped", !.timer = "cleared"]
\* AdminUsersScreen (app/(app)/(admin)/users/index.tsx)
Roles == {"admin", "user"}

\* userToEdit = null
NoUser == [id |-> 0, role |-> "none"]

\* no update request in flight
NoUpdate == [id |-> 0, role |-> "none", profile |-> 0]

\* the edit-role dialog's useState initial values (users/index.tsx:40-43)
DialogClosed ==
    [editRoleModalVisible |-> FALSE, userToEdit |-> NoUser, newRole |-> "user",
     updatingRole |-> FALSE]

\* the screen of an admin whose AuthState profile is `profile` (its id; 0:
\* null), with the list `users` it fetched (role by id), the roles stored in
\* user_profiles, and the handleUpdateRole call in flight (pc, pending).
\* pending is the update request issued, with the profile at that time.
\* History: op (the last handler that ran), alert (the last alert shown)
UsStart(roles) ==
    [profile |-> 1, roles |-> roles, users |-> roles, dialog |-> DialogClosed,
     pc |-> "idle", pending |-> NoUpdate, op |-> "none", alert |-> "none"]

\* the screen is not mounted
UsIdle == [UsStart([u \in Users |-> "admin"]) EXCEPT !.profile = 0]
\* one inventory request and the admin clients that list it
\* (app/(app)/(admin)/requests/index.tsx, unnamed/part_001)
Clients == {1, 2}

\* quantity_requested of the request
QuantityRequested == 1

\* handler calls followed per client
MaxResponses == 2

\* existingAssignment = null
NoAssignment == [row |-> 0, quantity_assigned |-> 0]

\* an admin client of the given kind ("requests": the requests screen,
\* "dashboard") that has fetched the request while it was pending (listed)
\* and runs no handler
RqClient(kind) ==
    [kind |-> kind, listed |-> TRUE, pc |-> "idle", approved |-> FALSE,
     existingAssignment |-> NoAssignment, calls |-> 0]

\* the request's row (status), the quantity_assigned of the item_assignments
\* rows of its item and location (rows), and the clients.  History: added
\* (how often quantity_requested was added to the assigned quantity), left
\* (how often the status went from pending to another value)
RqStart(rows, kinds) ==
    [status |-> "pending", rows |-> rows, clients |-> [c \in Clients |-> RqClient(kinds[c])],
     added |-> 0, left |-> 0]

\* no admin client is running
RqIdle == [RqStart(<< >>, [c \in Clients |-> "requests"]) EXCEPT
              !.clients = [c \in Clients |-> [RqClient("requests") EXCEPT !.listed = FALSE]]]
\* one item assignment and the clients that record actions on it
\* (app/(app)/(tabs)/my-locations.tsx)
\* quantity_assigned of the assignment at the start: 0 .. MaxQuantity
MaxQuantity == 2

\* handleSubmitAction calls followed per client
MaxActions == 2

\* the action selector's options (my-locations.tsx:445)
LocationActions == {"sale", "giveaway", "restock", "adjustment"}

\* texts of the quantity field (my-locations.tsx:59, 472), as characters
ActionQuantities ==
    {<< >>, <<"0">>, <<"1">>, <<"2">>, <<"3">>, <<"2", "x">>, <<"x">>}

Digit(ch) == CASE ch = "0" -> 0 [] ch = "1" -> 1 [] ch = "2" -> 2 [] ch = "3" -> 3 [] OTHER -> -1

\* parseInt(text): the number its leading digits write, NaN without one
RECURSIVE LeadingDigits(_, _)
LeadingDigits(text, acc) ==
    IF text = << >> \/ Digit(Head(text)) < 0 THEN acc
    ELSE LeadingDigits(Tail(text), acc * 10 + Digit(Head(text)))

\* isNaN(parseInt(text))
ParsesToNaN(text) == text = << >> \/ Digit(Head(text)) < 0

\* parseInt(text) when it is a number
ParseInt(text) == LeadingDigits(text, 0)

\* a client that has fetched the assignment (selectedAssignment.quantity_assigned
\* = snapshot) and runs no handler
LaClient(snapshot) ==
    [snapshot |-> snapshot, pc |-> "idle", quantityChange |-> 0, newQuantity |-> 0,
     calls |-> 0]

\* the assignment's quantity_assigned in the database and the clients.
\* History: initial (quantity_assigned at the start), changes (the sum of
\* quantity_change over the location_history rows recorded), op (how the
\* last handleSubmitAction call began)
LaStart(q) ==
    [quantity_assigned |-> q, initial |-> q, changes |-> 0,
     clients |-> [c \in Clients |-> LaClient(q)], op |-> "none"]

\* no client is running
LaIdle == LaStart(0)

VARIABLES
    state,       \* AuthState held by useState (AuthContext.tsx:29-36)
    isMounted,   \* the effect's isMounted flag (AuthContext.tsx:120)
    initPc,      \* position of initialize(): "fetching" | "done" | "dropped"
    runs,        \* bag of the loadProfileData calls in flight: position and locals of each
    cps,         \* the completePasswordSetup call, if one is in progress
    authUser,    \* user of the auth client's current session (0: none)
    metadata,    \* auth service: user_metadata of each user
    profiles,    \* database: user_profiles row of each user id (NoProfile: no row)
    handled,     \* history: an auth event has been handled by the listener
    insertFailedFor, \* history: invited users whose completePasswordSetup failed at the insert
    rp,          \* history: two refreshProfile calls in sequence with no other step from
                 \* the first call to the second return ("running1", "first", "running2",
                 \* "done"), the AuthState after the first, whether no backend call failed
    last,        \* history: the operation that produced this state
    inv,         \* the invite endpoint's handler invocation (api/invite.ts), if one is running
    old,         \* an AuthProvider of an earlier revision, with its startup safety timer
    us,          \* AdminUsersScreen: its edit-role dialog and the roles in the database
    rq,          \* an inventory request, the assignment it is for, and the admin clients
    la,          \* an item assignment, its location_history, and the clients recording actions
    track        \* history switch: the `raced` history of loader calls is kept

vars == <<state, isMounted, initPc, runs, cps, authUser, metadata, profiles,
          handled, insertFailedFor, rp, last, inv, old, us, rq, la, track>>

\* the variables of the screens and of the earlier revisions, which the
\* AuthProvider and the invite endpoint do not write
screenVars == <<old, us, rq, la>>

\* the row a user has once provisioned: the sign-up trigger makes the founder
\* of an organization its admin; loadProfileData and completePasswordSetup
\* insert invited_role || 'user'
OwnRow(u, md) ==
    [id |-> u, organization_id |-> 10 + u,
     role |-> IF md.organization_id = 0 /\ md.invited_by = 0 THEN "admin" ELSE "user"]

\* a completePasswordSetup call: its position, its local `user` (the id and
\* the user_metadata getUser returned) and whether updateUser has returned
\* without an error
CpsIdle == [pc |-> "idle", user |-> 0, meta |-> NoMeta, updated |-> FALSE]

RpNone == [stage |-> "none", clean |-> FALSE, snap |-> [session |-> 0, user |-> 0, profile |-> NoProfile,
           organization |-> 0, initialized |-> FALSE, needsPasswordSetup |-> "false"]]

\* mutant: useState starts with initialized: true
Init_StartsInitialized ==
    /\ state = [session |-> 0, user |-> 0, profile |-> NoProfile, organization |-> 0,
                initialized |-> TRUE, needsPasswordSetup |-> "false"]
    /\ isMounted = TRUE
    /\ initPc = "fetching"
    /\ runs = EmptyBag
    /\ cps = CpsIdle
    /\ authUser \in {0} \cup Users
    /\ \E md \in MetaShapes :
          /\ metadata = [u \in Users |-> IF u = 1 THEN md ELSE NoMeta]
          /\ \E row \in {NoProfile, OwnRow(1, md)} :
                profiles = [u \in Users |-> IF u = 1 THEN row ELSE OwnRow(2, NoMeta)]
    /\ handled = FALSE
    /\ insertFailedFor = {}
    /\ rp = RpNone
    /\ last = NoLast
    /\ inv = InvIdle
    /\ old = OldIdle /\ us = UsIdle /\ rq = RqIdle /\ la = LaIdle
    /\ track = FALSE

\* AuthProvider's useState initial value (AuthContext.tsx:29-36); initialize()
\* has been called and its getSession request is in flight (AuthContext.tsx:160)
Init ==
    /\ state = [session |-> 0, user |-> 0, profile |-> NoProfile, organization |-> 0,
                initialized |-> FALSE, needsPasswordSetup |-> "false"]
    /\ isMounted = TRUE
    /\ initPc = "fetching"
    /\ runs = EmptyBag
    /\ cps = CpsIdle
    /\ authUser \in {0} \cup Users
    /\ \E md \in MetaShapes :
          /\ metadata = [u \in Users |-> IF u = 1 THEN md ELSE NoMeta]
          /\ \E row \in {NoProfile, OwnRow(1, md)} :
                profiles = [u \in Users |-> IF u = 1 THEN row ELSE OwnRow(2, NoMeta)]
    /\ handled = FALSE
    /\ insertFailedFor = {}
    /\ rp = RpNone
    /\ last = NoLast
    /\ inv = InvIdle
    /\ old = OldIdle /\ us = UsIdle /\ rq = RqIdle /\ la = LaIdle
    /\ track = FALSE

\* the same start for user 1 created with organization 11 in the metadata,
\* invited by user 2 or signed up with an invite link, before or after the
\* Profile row was stored, with the `raced` history kept
RaceInit ==
    /\ state = [session |-> 0, user |-> 0, profile |-> NoProfile, organization |-> 0,
                initialized |-> FALSE, needsPasswordSetup |-> "false"]
    /\ isMounted = TRUE
    /\ initPc = "fetching"
    /\ runs = EmptyBag
    /\ cps = CpsIdle
    /\ authUser \in {0, 1}
    /\ \E md \in {m \in MetaShapes : m.organization_id # 0} :
          /\ metadata = [u \in Users |-> IF u = 1 THEN md ELSE NoMeta]
          /\ \E row \in {NoProfile, OwnRow(1, md)} :
                profiles = [u \in Users |-> IF u = 1 THEN row ELSE OwnRow(2, NoMeta)]
    /\ handled = FALSE
    /\ insertFailedFor = {}
    /\ rp = RpNone
    /\ last = NoLast
    /\ inv = InvIdle
    /\ old = OldIdle /\ us = UsIdle /\ rq = RqIdle /\ la = LaIdle
    /\ track = TRUE

\* ------------------------------------------------------------ setState forms
\* setState({session, user, profile: null, organization: null, initialized: true}):
\* the object replaces the whole state and carries no needsPasswordSetup key
\* (AuthContext.tsx:134-140, 144-150, 180-186)
ReplaceState(s, u) ==
    [session |-> s, user |-> u, profile |-> NoProfile, organization |-> 0,
     initialized |-> TRUE, needsPasswordSetup |-> "undefined"]

\* !needsPasswordSetup / needsPasswordSetup as a condition
Truthy(nps) == nps = "true"

\* ------------------------------------------------------------ calls in flight
FreeSlot == BagCardinality(runs) < MaxRuns

\* a call of loadProfileData(userId): runs to its first await, the profile
\* query (AuthContext.tsx:39-45).  History kept with the call: hadRow (the
\* user had a row when it started), inserted (it stored a row), clean (every
\* backend call so far returned the backend's true answer about this user),
\* seq (it is the first or the second of two refreshes in sequence), afterFail (it
\* started after a completePasswordSetup of the invited user failed at the
\* insert), raced (the last write to AuthState another call made while this
\* one was in flight: "invited", "loaded", or "none").  who: "effect" (initialize or the listener,
\* not awaited), "refresh", "cps" (awaited by completePasswordSetup)
StartRun(rs, u, who, n) ==
    rs (+) SetToBag({[pc |-> "qProfile", userId |-> u, caller |-> who,
                      profile |-> NoProfile, hadRow |-> profiles[u].id # 0,
                      inserted |-> FALSE, clean |-> TRUE, seq |-> n,
                      afterFail |-> u \in insertFailedFor, raced |-> "none"]})

Unmark(run) == [run EXCEPT !.seq = 0]

\* any step that is not part of two refreshProfile calls in sequence ends
\* the sequence being observed
ClearSeq(rs) == BagOfAll(Unmark, rs)

\* the call `run` is one of the two refreshProfile calls in sequence observed
InSeq(run) == run.seq # 0 /\ rp.stage \in {"running1", "running2"}

\* a call ended with `how` while the calls rs were in flight
Raced(rs, how) ==
    IF track /\ how \in {"invited", "loaded"}
      THEN BagOfAll(LAMBDA r : [r EXCEPT !.raced = how], rs)
    ELSE rs

\* bookkeeping of a loader step that does not end the call
Step(run, rec) ==
    /\ runs' = IF InSeq(run) THEN (runs (-) SetToBag({run})) (+) SetToBag({rec})
               ELSE ClearSeq((runs (-) SetToBag({run})) (+) SetToBag({rec}))
    /\ rp' = IF InSeq(run) THEN rp ELSE RpNone
    /\ last' = NoLast
    /\ UNCHANGED <<cps, state, inv, screenVars, track>>

\* bookkeeping of the step that ends the call `run` with AuthState st; a
\* completePasswordSetup call awaiting it (AuthContext.tsx:305-307) returns
\* {error: null}
Finish(run, st, how, ok) ==
    /\ state' = st
    /\ runs' = ClearSeq(Raced(runs (-) SetToBag({run}), how))
    /\ cps' = IF run.caller = "cps" THEN CpsIdle ELSE cps
    /\ rp' = IF InSeq(run) /\ run.seq = 2
               THEN [stage |-> "done", clean |-> rp.clean /\ run.clean /\ ok, snap |-> rp.snap]
             ELSE IF InSeq(run) /\ run.seq = 1
               THEN [stage |-> "first", clean |-> run.clean /\ ok, snap |-> st]
             ELSE RpNone
    /\ last' = [op |-> "loadProfileData", userId |-> run.userId, end |-> how,
                hadRow |-> run.hadRow, inserted |-> run.inserted, clean |-> run.clean /\ ok,
                afterFail |-> run.afterFail,
                cps |-> IF run.caller = "cps" THEN "ok" ELSE "none",
                raced |-> run.raced]

\* mutant: the catch block of loadProfileData clears the profile
ProfileQueryReturns_CatchClears(run, res) ==
    /\ run.pc = "qProfile"
    /\ res = "row" => profiles[run.userId].id # 0
    /\ CASE res = "row" ->
              Step(run, [run EXCEPT !.pc = "qOrg", !.profile = profiles[run.userId]])
         [] res = "error" ->
              Step(run, [run EXCEPT !.pc = "getUser",
                                    !.clean = @ /\ profiles[run.userId].id = 0])
         [] res = "throw" ->
              Finish(run, [state EXCEPT !.profile = NoProfile, !.organization = 0], "threw", FALSE)
    /\ UNCHANGED <<isMounted, initPc, authUser, metadata, profiles, handled, insertFailedFor, inv, screenVars, track>>

\* ------------------------------------------------------------ loadProfileData
\* the user_profiles query returns (AuthContext.tsx:41-48, 100-105, 113-115)
\*   "row":   data = the row             -> organization query
\*   "error": profileError or no row      -> supabase.auth.getUser()
\*   "throw": the call rejects            -> catch, return
ProfileQueryReturns(run, res) ==
    /\ run.pc = "qProfile"
    /\ res = "row" => profiles[run.userId].id # 0
    /\ CASE res = "row" ->
              Step(run, [run EXCEPT !.pc = "qOrg", !.profile = profiles[run.userId]])
         [] res = "error" ->
              Step(run, [run EXCEPT !.pc = "getUser",
                                    !.clean = @ /\ profiles[run.userId].id = 0])
         [] res = "throw" -> Finish(run, state, "threw", FALSE)
    /\ UNCHANGED <<isMounted, initPc, authUser, metadata, profiles, handled, insertFailedFor, inv, screenVars, track>>

\* the row loadProfileData inserts for userId from the metadata of `user`
\* (AuthContext.tsx:66-72)
NewProfile(userId, user) ==
    [id |-> userId, organization_id |-> metadata[user].organization_id,
     role |-> IF metadata[user].invited_role # "none" THEN metadata[user].invited_role ELSE "user"]

\* mutant: the invited branch returns without setting needsPasswordSetup
GetUserReturns_NoFlag(run, res) ==
    /\ run.pc = "getUser"
    /\ res = "user" => authUser # 0
    /\ CASE res = "user" /\ metadata[authUser].invited_by # 0 ->
              Finish(run, state, "invited", authUser = run.userId)
         [] res = "user" /\ metadata[authUser].invited_by = 0
                         /\ metadata[authUser].organization_id # 0 ->
              Step(run, [run EXCEPT !.pc = "insert",
                                    !.profile = [id |-> run.userId,
                                                 organization_id |-> metadata[authUser].organization_id,
                                                 role |-> "user"],
                                    !.clean = @ /\ authUser = run.userId])
         [] res = "user" /\ metadata[authUser].invited_by = 0
                         /\ metadata[authUser].organization_id = 0 ->
              Finish(run, state, "nometa", authUser = run.userId)
         [] res = "null" -> Finish(run, state, "nometa", FALSE)
         [] res = "throw" -> Finish(run, state, "threw", FALSE)
    /\ UNCHANGED <<isMounted, initPc, authUser, metadata, profiles, handled, insertFailedFor, inv, screenVars, track>>

\* supabase.auth.getUser() returns (AuthContext.tsx:50-63, 96-97)
\*   "user":  data.user = the auth client's current user
\*   "null":  data.user = null (no session, or the request failed)
\*   "throw": the call rejects
GetUserReturns(run, res) ==
    /\ run.pc = "getUser"
    /\ res = "user" => authUser # 0
    /\ CASE res = "user" /\ metadata[authUser].invited_by # 0 ->
              Finish(run, [state EXCEPT !.needsPasswordSetup = "true"], "invited",
                     authUser = run.userId)
         [] res = "user" /\ metadata[authUser].invited_by = 0
                         /\ metadata[authUser].organization_id # 0 ->
              Step(run, [run EXCEPT !.pc = "insert",
                                    !.profile = NewProfile(run.userId, authUser),
                                    !.clean = @ /\ authUser = run.userId])
         [] res = "user" /\ metadata[authUser].invited_by = 0
                         /\ metadata[authUser].organization_id = 0 ->
              Finish(run, state, "nometa", authUser = run.userId)
         [] res = "null" -> Finish(run, state, "nometa", FALSE)
         [] res = "throw" -> Finish(run, state, "threw", FALSE)
    /\ UNCHANGED <<isMounted, initPc, authUser, metadata, profiles, handled, insertFailedFor, inv, screenVars, track>>

\* mutant: the insert reports success without a row being stored
InsertReturns_NotStored(run, res) ==
    /\ run.pc = "insert"
    /\ res = "ok" => profiles[run.userId].id = 0
    /\ CASE res = "ok" ->
              /\ Step(run, [run EXCEPT !.pc = "qOrg", !.inserted = TRUE])
              /\ UNCHANGED profiles
         [] res = "error" ->
              /\ Finish(run, state, "insertFailed", FALSE)
              /\ UNCHANGED profiles
         [] res = "throw" ->
              /\ Finish(run, state, "threw", FALSE)
              /\ UNCHANGED profiles
    /\ UNCHANGED <<isMounted, initPc, authUser, metadata, handled, insertFailedFor, inv, screenVars, track>>

\* mutant: the database stores the row with a role of its own, and the
\* loader keeps the row it sent
InsertReturns_OtherRole(run, res) ==
    /\ run.pc = "insert"
    /\ res = "ok" => profiles[run.userId].id = 0
    /\ CASE res = "ok" ->
              /\ profiles' = [profiles EXCEPT ![run.userId] = [run.profile EXCEPT !.role = "admin"]]
              /\ Step(run, [run EXCEPT !.pc = "qOrg", !.inserted = TRUE])
         [] res = "error" ->
              /\ Finish(run, state, "insertFailed", FALSE)
              /\ UNCHANGED profiles
         [] res = "throw" ->
              /\ Finish(run, state, "threw", FALSE)
              /\ UNCHANGED profiles
    /\ UNCHANGED <<isMounted, initPc, authUser, metadata, handled, insertFailedFor, inv, screenVars, track>>

\* the user_profiles insert returns (AuthContext.tsx:64-79)
\*   "ok":    the row is stored (only possible when the id has no row yet)
\*   "error": createError
\*   "throw": the call rejects
InsertReturns(run, res) ==
    /\ run.pc = "insert"
    /\ res = "ok" => profiles[run.userId].id = 0
    /\ CASE res = "ok" ->
              /\ profiles' = [profiles EXCEPT ![run.userId] = run.profile]
              /\ Step(run, [run EXCEPT !.pc = "qOrg", !.inserted = TRUE])
         [] res = "error" ->
              /\ Finish(run, state, "insertFailed", FALSE)
              /\ UNCHANGED profiles
         [] res = "throw" ->
              /\ Finish(run, state, "threw", FALSE)
              /\ UNCHANGED profiles
    /\ UNCHANGED <<isMounted, initPc, authUser, metadata, handled, insertFailedFor, inv, screenVars, track>>

\* mutant: the final setState leaves needsPasswordSetup as it was
OrganizationReturns_KeepsFlag(run, res) ==
    /\ run.pc = "qOrg"
    /\ res = "row" => run.profile.organization_id \in Orgs
    /\ CASE res = "row" ->
              Finish(run, [state EXCEPT !.profile = run.profile,
                                      !.organization = run.profile.organization_id],
                     "loaded", TRUE)
         [] res = "null" ->
              Finish(run, [state EXCEPT !.profile = run.profile, !.organization = 0],
                     "loaded", FALSE)
         [] res = "throw" -> Finish(run, state, "threw", FALSE)
    /\ UNCHANGED <<isMounted, initPc, authUser, metadata, profiles, handled, insertFailedFor, inv, screenVars, track>>

\* the organizations query returns (AuthContext.tsx:81-93, 100-112); its
\* error is not read, so a failed lookup is `organization || null`
\*   "row":   data = the organization with the queried id
\*   "null":  data = null
\*   "throw": the call rejects
OrganizationReturns(run, res) ==
    /\ run.pc = "qOrg"
    /\ res = "row" => run.profile.organization_id \in Orgs
    /\ CASE res = "row" ->
              Finish(run, [state EXCEPT !.profile = run.profile,
                                      !.organization = run.profile.organization_id,
                                      !.needsPasswordSetup = "false"], "loaded", TRUE)
         [] res = "null" ->
              Finish(run, [state EXCEPT !.profile = run.profile,
                                      !.organization = 0,
                                      !.needsPasswordSetup = "false"], "loaded", FALSE)
         [] res = "throw" -> Finish(run, state, "threw", FALSE)
    /\ UNCHANGED <<isMounted, initPc, authUser, metadata, profiles, handled, insertFailedFor, inv, screenVars, track>>

\* bookkeeping of a step that is not a loader step
Other(rs, op, u, how, ret) ==
    /\ runs' = ClearSeq(rs)
    /\ rp' = RpNone
    /\ last' = [NoLast EXCEPT !.op = op, !.userId = u, !.end = how, !.cps = ret]

\* mutant: the catch block of initialize() only logs
InitializeReturns_CatchOnlyLogs(res) ==
    /\ initPc = "fetching"
    /\ LET session == IF res = "session" THEN authUser ELSE 0 IN
       CASE res = "throw" /\ isMounted ->
              /\ state' = state
              /\ initPc' = "done"
              /\ Other(runs, "initialize", 0, res, "none")
         [] ~isMounted ->
              /\ initPc' = "dropped"
              /\ Other(runs, "none", 0, "none", "none")
              /\ UNCHANGED state
         [] res # "throw" /\ isMounted /\ session # 0 ->
              /\ FreeSlot
              /\ state' = ReplaceState(session, session)
              /\ initPc' = "done"
              /\ Other(StartRun(runs, session, "effect", 0), "initialize", session, res, "none")
         [] res # "throw" /\ isMounted /\ session = 0 ->
              /\ state' = ReplaceState(0, 0)
              /\ initPc' = "done"
              /\ Other(runs, "initialize", 0, res, "none")
    /\ UNCHANGED <<isMounted, cps, authUser, metadata, profiles, handled, insertFailedFor, inv, screenVars, track>>

\* ------------------------------------------------------------ initialize
\* supabase.auth.getSession() returns to initialize() (AuthContext.tsx:122-158)
\*   "session": data.session = the auth client's current session (null if none)
\*   "error":   data.session = null with an error, which is only logged
\*   "throw":   the call rejects
InitializeReturns(res) ==
    /\ initPc = "fetching"
    /\ LET session == IF res = "session" THEN authUser ELSE 0 IN
       CASE res = "throw" /\ isMounted ->
              /\ state' = [state EXCEPT !.initialized = TRUE]
              /\ initPc' = "done"
              /\ Other(runs, "initialize", 0, res, "none")
         [] ~isMounted ->
              /\ initPc' = "dropped"
              /\ Other(runs, "none", 0, "none", "none")
              /\ UNCHANGED state
         [] res # "throw" /\ isMounted /\ session # 0 ->
              /\ FreeSlot
              /\ state' = ReplaceState(session, session)
              /\ initPc' = "done"
              /\ Other(StartRun(runs, session, "effect", 0), "initialize", session, res, "none")
         [] res # "throw" /\ isMounted /\ session = 0 ->
              /\ state' = ReplaceState(0, 0)
              /\ initPc' = "done"
              /\ Other(runs, "initialize", 0, res, "none")
    /\ UNCHANGED <<isMounted, cps, authUser, metadata, profiles, handled, insertFailedFor, inv, screenVars, track>>

\* ------------------------------------------------------------ onAuthStateChange
\* mutant: the listener starts the loader and leaves the session and user
\* update to it
onSignedIn_LoaderOnly(session) ==
    CASE ~isMounted ->
           /\ Other(runs, "none", 0, "none", "none")
           /\ UNCHANGED <<state, handled>>
      [] isMounted /\ session # 0 ->
           /\ FreeSlot
           /\ state' = state
           /\ handled' = TRUE
           /\ Other(StartRun(runs, session, "effect", 0), "SIGNED_IN", session, "none", "none")
      [] isMounted /\ session = 0 ->
           /\ Other(runs, "none", 0, "none", "none")
           /\ UNCHANGED <<state, handled>>

\* the listener's callback for SIGNED_IN and TOKEN_REFRESHED with session
\* (0: event without a session) (AuthContext.tsx:164-178)
onSignedIn(session) ==
    CASE ~isMounted ->
           /\ Other(runs, "none", 0, "none", "none")
           /\ UNCHANGED <<state, handled>>
      [] isMounted /\ session # 0 ->
           /\ FreeSlot
           /\ state' = [state EXCEPT !.session = session, !.user = session, !.initialized = TRUE]
           /\ handled' = TRUE
           /\ Other(StartRun(runs, session, "effect", 0), "SIGNED_IN", session, "none", "none")
      [] isMounted /\ session = 0 ->
           /\ Other(runs, "none", 0, "none", "none")
           /\ UNCHANGED <<state, handled>>

\* mutant: SIGNED_OUT restores the state the provider was constructed with
onSignedOut_Reset ==
    CASE ~isMounted ->
           /\ Other(runs, "none", 0, "none", "none")
           /\ UNCHANGED <<state, handled>>
      [] isMounted ->
           /\ state' = [session |-> 0, user |-> 0, profile |-> NoProfile, organization |-> 0,
                        initialized |-> FALSE, needsPasswordSetup |-> "false"]
           /\ handled' = TRUE
           /\ Other(runs, "SIGNED_OUT", 0, "none", "none")

\* mutant: SIGNED_OUT clears session and user only
onSignedOut_KeepsProfile ==
    CASE ~isMounted ->
           /\ Other(runs, "none", 0, "none", "none")
           /\ UNCHANGED <<state, handled>>
      [] isMounted ->
           /\ state' = [state EXCEPT !.session = 0, !.user = 0, !.initialized = TRUE]
           /\ handled' = TRUE
           /\ Other(runs, "SIGNED_OUT", 0, "none", "none")

\* the listener's callback for SIGNED_OUT (AuthContext.tsx:164-167, 179-187)
onSignedOut ==
    CASE ~isMounted ->
           /\ Other(runs, "none", 0, "none", "none")
           /\ UNCHANGED <<state, handled>>
      [] isMounted ->
           /\ state' = ReplaceState(0, 0)
           /\ handled' = TRUE
           /\ Other(runs, "SIGNED_OUT", 0, "none", "none")

\* the auth client signs user u in and notifies the listener
SignedIn(u) ==
    /\ isMounted
    /\ authUser' = u
    /\ onSignedIn(u)
    /\ UNCHANGED <<isMounted, initPc, cps, metadata, profiles, insertFailedFor, inv, screenVars, track>>

\* the auth client refreshes the current session's token and notifies the listener
TokenRefreshed ==
    /\ isMounted
    /\ authUser # 0
    /\ onSignedIn(authUser)
    /\ UNCHANGED <<isMounted, initPc, cps, authUser, metadata, profiles, insertFailedFor, inv, screenVars, track>>

\* the auth client drops its session and notifies the listener
SignedOut ==
    /\ isMounted
    /\ authUser' = 0
    /\ onSignedOut
    /\ UNCHANGED <<isMounted, initPc, cps, metadata, profiles, insertFailedFor, inv, screenVars, track>>

\* the effect's cleanup (AuthContext.tsx:191-194)
Teardown ==
    /\ isMounted
    /\ isMounted' = FALSE
    /\ Other(runs, "none", 0, "none", "none")
    /\ UNCHANGED <<state, initPc, cps, authUser, metadata, profiles, handled, insertFailedFor, inv, screenVars, track>>

\* ------------------------------------------------------------ refreshProfile
\* refreshProfile() is called by a consumer (AuthContext.tsx:257-261); with
\* no user it returns at once
RefreshProfile ==
    /\ isMounted
    /\ state.user # 0
    /\ FreeSlot
    /\ runs' = IF rp.stage = "first"
               THEN StartRun(runs, state.user, "refresh", 2)
               ELSE StartRun(ClearSeq(runs), state.user, "refresh", 1)
    /\ rp' = IF rp.stage = "first" THEN [rp EXCEPT !.stage = "running2"]
                                   ELSE [RpNone EXCEPT !.stage = "running1"]
    /\ last' = NoLast
    /\ UNCHANGED <<state, isMounted, initPc, cps, authUser, metadata, profiles, handled, insertFailedFor, inv, screenVars, track>>

\* ------------------------------------------------------------ completePasswordSetup
\* SetPasswordScreen shows its form only to a user who needs setup
\* (unnamed/part_002:27-36); submitting calls completePasswordSetup, which
\* runs to its first await, supabase.auth.getUser() (AuthContext.tsx:264-266)
CompletePasswordSetup ==
    /\ isMounted
    /\ state.user # 0 /\ Truthy(state.needsPasswordSetup)
    /\ cps.pc = "idle"
    /\ cps' = [CpsIdle EXCEPT !.pc = "getUser"]
    /\ Other(runs, "none", 0, "none", "none")
    /\ UNCHANGED <<state, isMounted, initPc, authUser, metadata, profiles, handled, insertFailedFor, inv, screenVars, track>>

\* getUser returns to completePasswordSetup (AuthContext.tsx:266-277, 308-310)
CpsGetUserReturns(res) ==
    /\ cps.pc = "getUser"
    /\ res = "user" => authUser # 0
    /\ CASE res = "user" ->
              /\ cps' = [pc |-> "updateUser", user |-> authUser, meta |-> metadata[authUser],
                          updated |-> FALSE]
              /\ Other(runs, "none", 0, "none", "none")
         [] res = "null" ->
              /\ cps' = CpsIdle
              /\ Other(runs, "completePasswordSetup", 0, "none", "Not authenticated")
         [] res = "throw" ->
              /\ cps' = CpsIdle
              /\ Other(runs, "completePasswordSetup", 0, "none", "thrown")
    /\ UNCHANGED <<state, isMounted, initPc, authUser, metadata, profiles, handled, insertFailedFor, inv, screenVars, track>>

\* mutant: updateUser replaces the user's metadata by `data`
UpdateUser_Replaces(md, u) == [md EXCEPT ![u] = NoMeta]

\* updateUser({password, data: {display_name}}) merges data into the current
\* user's metadata: the keys other than display_name keep their values
UpdateUser(md, u) == [md EXCEPT ![u] = [k \in DOMAIN md[u] |-> md[u][k]]]

\* updateUser returns to completePasswordSetup (AuthContext.tsx:272-297, 308-310)
CpsUpdateUserReturns(res) ==
    /\ cps.pc = "updateUser"
    /\ res = "ok" => authUser # 0
    /\ CASE res = "ok" /\ cps.meta.organization_id # 0 ->
              /\ metadata' = UpdateUser(metadata, authUser)
              /\ cps' = [cps EXCEPT !.pc = "insert", !.updated = TRUE]
              /\ Other(runs, "none", 0, "none", "none")
         [] res = "ok" /\ cps.meta.organization_id = 0 ->
              /\ metadata' = UpdateUser(metadata, authUser)
              /\ cps' = CpsIdle
              /\ Other(runs, "completePasswordSetup", cps.user, "none", "No organization found")
         [] res = "error" ->
              /\ cps' = CpsIdle
              /\ Other(runs, "completePasswordSetup", cps.user, "none", "updateError")
              /\ UNCHANGED metadata
         [] res = "throw" ->
              /\ cps' = CpsIdle
              /\ Other(runs, "completePasswordSetup", cps.user, "none", "thrown")
              /\ UNCHANGED metadata
    /\ UNCHANGED <<state, isMounted, initPc, authUser, profiles, handled, insertFailedFor, inv, screenVars, track>>

\* mutant: the row is created in the organization of user 2
CpsProfile_OtherOrg(user, meta) ==
    [id |-> user, organization_id |-> 12,
     role |-> IF meta.invited_role # "none" THEN meta.invited_role ELSE "user"]

\* the row completePasswordSetup inserts for `user` (AuthContext.tsx:284-297)
CpsProfile(user, meta) ==
    [id |-> user, organization_id |-> meta.organization_id,
     role |-> IF meta.invited_role # "none" THEN meta.invited_role ELSE "user"]

\* history: the invited users whose completePasswordSetup failed at the insert
InsertFailed(c) ==
    IF c.meta.invited_by # 0 THEN insertFailedFor \cup {c.user} ELSE insertFailedFor

\* mutant: needsPasswordSetup is cleared before the insert's error is read
CpsInsertReturns_ClearsFirst(res) ==
    /\ cps.pc = "insert"
    /\ res = "ok" => profiles[cps.user].id = 0
    /\ CASE res = "ok" ->
              /\ FreeSlot
              /\ profiles' = [profiles EXCEPT ![cps.user] = CpsProfile(cps.user, cps.meta)]
              /\ state' = [state EXCEPT !.needsPasswordSetup = "false"]
              /\ cps' = [cps EXCEPT !.pc = "loading"]
              /\ Other(StartRun(runs, cps.user, "cps", 0), "none", 0, "none", "none")
              /\ UNCHANGED insertFailedFor
         [] res = "error" ->
              /\ cps' = CpsIdle
              /\ insertFailedFor' = InsertFailed(cps)
              /\ state' = [state EXCEPT !.needsPasswordSetup = "false"]
              /\ Other(runs, "completePasswordSetup", cps.user, "none", "profileError")
              /\ UNCHANGED profiles
         [] res = "throw" ->
              /\ cps' = CpsIdle
              /\ insertFailedFor' = InsertFailed(cps)
              /\ Other(runs, "completePasswordSetup", cps.user, "none", "thrown")
              /\ UNCHANGED <<state, profiles>>
    /\ UNCHANGED <<isMounted, initPc, authUser, metadata, handled, inv, screenVars, track>>

\* the user_profiles insert returns to completePasswordSetup
\* (AuthContext.tsx:289-310); on success the call awaits loadProfileData
CpsInsertReturns(res) ==
    /\ cps.pc = "insert"
    /\ res = "ok" => profiles[cps.user].id = 0
    /\ CASE res = "ok" ->
              /\ FreeSlot
              /\ profiles' = [profiles EXCEPT ![cps.user] = CpsProfile(cps.user, cps.meta)]
              /\ state' = [state EXCEPT !.needsPasswordSetup = "false"]
              /\ cps' = [cps EXCEPT !.pc = "loading"]
              /\ Other(StartRun(runs, cps.user, "cps", 0), "none", 0, "none", "none")
              /\ UNCHANGED insertFailedFor
         [] res = "error" ->
              /\ cps' = CpsIdle
              /\ insertFailedFor' = InsertFailed(cps)
              /\ Other(runs, "completePasswordSetup", cps.user, "none", "profileError")
              /\ UNCHANGED <<state, profiles>>
         [] res = "throw" ->
              /\ cps' = CpsIdle
              /\ insertFailedFor' = InsertFailed(cps)
              /\ Other(runs, "completePasswordSetup", cps.user, "none", "thrown")
              /\ UNCHANGED <<state, profiles>>
    /\ UNCHANGED <<isMounted, initPc, authUser, metadata, handled, inv, screenVars, track>>

\* ------------------------------------------------------------ consumers
\* what a screen renders from the context value: "null" (nothing), a route
\* it redirects to, or its own content
Routes == {"/(app)/(tabs)", "/(auth)/login", "/(auth)/set-password"}

\* isAdmin of the context value (AuthContext.tsx:322)
isAdmin == state.profile.role = "admin"

\* AdminScreen (app/(app)/(tabs)/admin.tsx:7-18)
AdminScreen ==
    IF ~state.initialized THEN "null"
    ELSE IF ~isAdmin THEN "/(app)/(tabs)"
    ELSE "screen"

\* the root Index route (scripts/inject-meta.js:47-64)
Index ==
    IF ~state.initialized THEN "null"
    ELSE IF state.user # 0
      THEN (IF Truthy(state.needsPasswordSetup) THEN "/(auth)/set-password" ELSE "/(app)/(tabs)")
    ELSE "/(auth)/login"

\* AuthLayout (app/(auth)/_layout.tsx:6-13)
AuthLayout ==
    IF state.initialized /\ state.user # 0 /\ ~Truthy(state.needsPasswordSetup)
      THEN "/(app)/(tabs)"
    ELSE "stack"

\* SetPasswordScreen (unnamed/part_002:18-36)
SetPasswordScreen ==
    IF ~Truthy(state.needsPasswordSetup) /\ state.user # 0 THEN "/(app)/(tabs)"
    ELSE IF state.user = 0 THEN "/(auth)/login"
    ELSE "form"

\* ------------------------------------------------------------ invite endpoint
\* the variables of the AuthProvider and of the backend, which the handler
\* does not write
authVars == <<state, isMounted, initPc, runs, cps, authUser, metadata, profiles,
              handled, insertFailedFor, rp, last>>

\* res.status(status).json({error}) / .end(): the invocation is over
Respond(h, status, err) == [h EXCEPT !.pc = "done", !.status = status, !.error = err]

\* a request arrives and the handler runs to its first await, getUser(token),
\* or to a response (api/invite.ts:4-37).  Invocations share no state, so one
\* is followed from its request to its response
Receive(req) ==
    /\ inv.pc = "idle"
    /\ LET h == [InvIdle EXCEPT !.req = req] IN
       inv' = IF req.method = "OPTIONS" THEN Respond(h, 200, "none")
              ELSE IF req.method # "POST" THEN Respond(h, 405, "Method not allowed")
              ELSE IF req.authorization.scheme # "Bearer" THEN Respond(h, 401, "Missing authorization")
              ELSE [h EXCEPT !.pc = "getUser"]
    /\ UNCHANGED <<authVars, screenVars, track>>

\* supabase.auth.getUser(token) returns (api/invite.ts:37-47)
\*   "user":  the user the token belongs to
\*   "error": userError or no user
InviteGetUserReturns(res) ==
    /\ inv.pc = "getUser"
    /\ res = "user" => inv.req.authorization.token # 0
    /\ inv' = IF res = "user"
                THEN [inv EXCEPT !.pc = "qProfile", !.user = inv.req.authorization.token]
              ELSE Respond(inv, 401, "Unauthorized")
    /\ UNCHANGED <<authVars, screenVars, track>>

\* mutant: keys of the body take precedence over the caller's
InviteData_FromBody(h) ==
    [organization_id |-> IF h.req.body.organization_id # 0 THEN h.req.body.organization_id
                         ELSE h.profile.organization_id,
     invited_by |-> h.user,
     invited_role |-> IF h.req.body.invited_role # "none" THEN h.req.body.invited_role ELSE "user"]

\* the metadata of an invite (api/invite.ts:77-81)
InviteData(h) ==
    [organization_id |-> h.profile.organization_id, invited_by |-> h.user, invited_role |-> "user"]

\* one entry of `results`
Result(email, ok, err) == [email |-> email, success |-> ok, error |-> err]

\* the for loop from entry i up to its next await or its end
\* (api/invite.ts:65-94): an entry that is no string makes email.trim() throw
RECURSIVE RunLoop(_, _)
RunLoop(h, i) ==
    LET emails == h.req.body.emails.list IN
    IF i > Len(emails) THEN [h EXCEPT !.pc = "respond", !.i = i]
    ELSE IF emails[i].type # "string" THEN [h EXCEPT !.pc = "threw", !.i = i]
    ELSE LET trimmedEmail == ToLowerCase(Trim(emails[i].chars)) IN
         IF trimmedEmail = <<>> \/ ~Includes(trimmedEmail, "@")
           THEN RunLoop([h EXCEPT !.results = Append(@,
                            Result(IF trimmedEmail # <<>> THEN trimmedEmail ELSE emails[i].chars,
                                   FALSE, "Invalid email"))], i + 1)
           ELSE [h EXCEPT !.pc = "invite", !.i = i,
                          !.calls = Append(@, [email |-> trimmedEmail, data |-> InviteData(h)])]

\* the handler goes on from entry i: it awaits inviteUserByEmail, answers
\* 200 with the results, or ends in the outer catch (api/invite.ts:96-106)
Continue(h, i) ==
    LET g == RunLoop(h, i) IN
    IF g.pc = "respond" THEN Respond(g, 200, "none")
    ELSE IF g.pc = "threw" THEN Respond(g, 500, "Internal server error")
    ELSE g

\* mutant: any caller with a profile may invite
InviteProfileReturns_AnyRole(res) ==
    /\ inv.pc = "qProfile"
    /\ res = "row" => profiles[inv.user].id # 0
    /\ LET profile == IF res = "row" THEN profiles[inv.user] ELSE NoProfile
           body == inv.req.body
           h == [inv EXCEPT !.profile = profile] IN
       inv' = IF profile = NoProfile
                THEN Respond(inv, 403, "Only admins can invite users")
              ELSE IF ~body.present THEN Respond(h, 500, "Internal server error")
              ELSE IF body.emails.kind # "array" \/ Len(body.emails.list) = 0
                THEN Respond(h, 400, "Please provide at least one email")
              ELSE IF Len(body.emails.list) > MaxInvites
                THEN Respond(h, 400, "Maximum 10 invites at a time")
              ELSE Continue(h, 1)
    /\ UNCHANGED <<authVars, screenVars, track>>

\* mutant: the length of the list is not limited
InviteProfileReturns_NoLimit(res) ==
    /\ inv.pc = "qProfile"
    /\ res = "row" => profiles[inv.user].id # 0
    /\ LET profile == IF res = "row" THEN profiles[inv.user] ELSE NoProfile
           body == inv.req.body
           h == [inv EXCEPT !.profile = profile] IN
       inv' = IF profile = NoProfile \/ profile.role # "admin"
                THEN Respond(inv, 403, "Only admins can invite users")
              ELSE IF ~body.present THEN Respond(h, 500, "Internal server error")
              ELSE IF body.emails.kind # "array" \/ Len(body.emails.list) = 0
                THEN Respond(h, 400, "Please provide at least one email")
              ELSE Continue(h, 1)
    /\ UNCHANGED <<authVars, screenVars, track>>

\* the user_profiles query returns: the caller's row, or null (no row, or
\* the query failed: its error is not read).  Then the admin check, the
\* checks of req.body.emails and the loop up to its first await
\* (api/invite.ts:43-66); destructuring an absent body throws
InviteProfileReturns(res) ==
    /\ inv.pc = "qProfile"
    /\ res = "row" => profiles[inv.user].id # 0
    /\ LET profile == IF res = "row" THEN profiles[inv.user] ELSE NoProfile
           body == inv.req.body
           h == [inv EXCEPT !.profile = profile] IN
       inv' = IF profile = NoProfile \/ profile.role # "admin"
                THEN Respond(inv, 403, "Only admins can invite users")
              ELSE IF ~body.present THEN Respond(h, 500, "Internal server error")
              ELSE IF body.emails.kind # "array" \/ Len(body.emails.list) = 0
                THEN Respond(h, 400, "Please provide at least one email")
              ELSE IF Len(body.emails.list) > MaxInvites
                THEN Respond(h, 400, "Maximum 10 invites at a time")
              ELSE Continue(h, 1)
    /\ UNCHANGED <<authVars, screenVars, track>>

\* mutant: the first invite that fails ends the loop
InviteUserReturns_StopsOnError(res) ==
    /\ inv.pc = "invite"
    /\ LET email == inv.calls[Len(inv.calls)].email
           entry == CASE res = "ok" -> Result(email, TRUE, "none")
                      [] res = "error" -> Result(email, FALSE, "inviteError")
                      [] res = "throw" -> Result(email, FALSE, "Failed to send") IN
       inv' = IF res = "ok" THEN Continue([inv EXCEPT !.results = Append(@, entry)], inv.i + 1)
              ELSE Respond([inv EXCEPT !.results = Append(@, entry)], 200, "none")
    /\ UNCHANGED <<authVars, screenVars, track>>

\* inviteUserByEmail returns for entry i (api/invite.ts:74-94)
\*   "ok":    the invite was sent
\*   "error": inviteError
\*   "throw": the call rejects (inner catch)
InviteUserReturns(res) ==
    /\ inv.pc = "invite"
    /\ LET email == inv.calls[Len(inv.calls)].email
           entry == CASE res = "ok" -> Result(email, TRUE, "none")
                      [] res = "error" -> Result(email, FALSE, "inviteError")
                      [] res = "throw" -> Result(email, FALSE, "Failed to send") IN
       inv' = Continue([inv EXCEPT !.results = Append(@, entry)], inv.i + 1)
    /\ UNCHANGED <<authVars, screenVars, track>>

\* the endpoint alone: one sign-in state of the app, any request
InviteNext ==
    \/ \E req \in Requests : Receive(req)
    \/ \E res \in {"user", "error"} : InviteGetUserReturns(res)
    \/ \E res \in {"row", "null"} : InviteProfileReturns(res)
    \/ \E res \in {"ok", "error", "throw"} : InviteUserReturns(res)

InviteSpec == Init /\ [][InviteNext]_vars

\* ------------------------------------------------------------ revisions with a safety timer
\* the latest AuthProvider and the backend, not followed while another
\* component is
Parked ==
    /\ state = [session |-> 0, user |-> 0, profile |-> NoProfile, organization |-> 0,
                initialized |-> FALSE, needsPasswordSetup |-> "false"]
    /\ isMounted = TRUE
    /\ initPc = "fetching"
    /\ runs = EmptyBag
    /\ cps = CpsIdle
    /\ authUser = 0
    /\ metadata = [u \in Users |-> NoMeta]
    /\ profiles = [u \in Users |-> OwnRow(u, NoMeta)]
    /\ handled = FALSE
    /\ insertFailedFor = {}
    /\ rp = RpNone
    /\ last = NoLast
    /\ inv = InvIdle
    /\ track = FALSE

\* setState({session, user, profile, organization, loading: false, initialized: true})
OldReplace(sess, p, g) ==
    [session |-> sess, user |-> SessionUser(sess), profile |-> p, organization |-> g,
     loading |-> FALSE, initialized |-> TRUE]

OldFreeSlot == BagCardinality(old.fetches) < MaxFetches

\* supabase.auth.getSession() returns to initializeAuth, or rejects
\* (part_003:88-120, _layout.tsx:104-145)
OldGetSessionReturns(res) ==
    /\ old.initPc = "fetching"
    /\ LET sess == IF res = "session" THEN old.authSession ELSE 0 IN
       CASE ~old.mounted ->
              old' = [old EXCEPT !.initPc = "dropped", !.boot = "dropped"]
         [] old.mounted /\ res = "throw" ->
              old' = [old EXCEPT !.state.loading = FALSE, !.state.initialized = TRUE,
                                 !.initPc = "done", !.boot = "error"]
         [] old.mounted /\ res = "session" /\ sess = 0 ->
              old' = [old EXCEPT !.state = OldReplace(0, 0, 0),
                                 !.initPc = "done", !.boot = "nosession"]
         [] old.mounted /\ res = "session" /\ sess # 0 /\ old.rev = "5000" ->
              old' = [old EXCEPT !.initPc = "fetchUser", !.initSession = sess]
         [] old.mounted /\ res = "session" /\ sess # 0 /\ old.rev = "8000" ->
              /\ OldFreeSlot
              /\ old' = [old EXCEPT !.state.session = sess, !.state.user = SessionUser(sess),
                                    !.state.loading = FALSE, !.state.initialized = TRUE,
                                    !.fetches = @ (+) SetToBag({[session |-> sess]}),
                                    !.initPc = "done", !.boot = "session"]
    /\ UNCHANGED <<authVars, inv, us, rq, la, track>>

\* revision 5000: the fetchUserData call initializeAuth awaits resolves and
\* the whole state is set (part_003:94-103)
OldInitFetchReturns(res) ==
    /\ old.initPc = "fetchUser"
    /\ old' = [old EXCEPT !.state = OldReplace(old.initSession,
                                               FetchedProfile(SessionUser(old.initSession), res),
                                               FetchedOrganization(SessionUser(old.initSession), res)),
                          !.initPc = "done", !.boot = "session"]
    /\ UNCHANGED <<authVars, inv, us, rq, la, track>>

\* the auth client emits an event and the listener runs to its first await
\* or to its end (part_003:139-164, _layout.tsx:156-192)
OldAuthEvent(event) ==
    /\ event = "TOKEN_REFRESHED" => old.authSession = 1
    /\ LET sess == CASE event = "SIGNED_IN" -> (IF old.authSession = 0 THEN 1 ELSE old.authSession)
                     [] event = "SIGNED_OUT" -> 0
                     [] event = "TOKEN_REFRESHED" -> 2 IN
       CASE ~old.mounted ->
              old' = [old EXCEPT !.authSession = sess]
         [] old.mounted /\ event = "SIGNED_IN" /\ old.rev = "5000" ->
              /\ OldFreeSlot
              /\ old' = [old EXCEPT !.authSession = sess,
                                    !.fetches = @ (+) SetToBag({[session |-> sess]})]
         [] old.mounted /\ event = "SIGNED_IN" /\ old.rev = "8000" ->
              /\ OldFreeSlot
              /\ old' = [old EXCEPT !.authSession = sess,
                                    !.state.session = sess, !.state.user = SessionUser(sess),
                                    !.state.loading = FALSE, !.state.initialized = TRUE,
                                    !.fetches = @ (+) SetToBag({[session |-> sess]})]
         [] old.mounted /\ event = "SIGNED_OUT" ->
              old' = [old EXCEPT !.authSession = sess, !.state = OldReplace(0, 0, 0)]
         [] old.mounted /\ event = "TOKEN_REFRESHED" ->
              old' = [old EXCEPT !.authSession = sess, !.state.session = sess]
    /\ UNCHANGED <<authVars, inv, us, rq, la, track>>

\* a fetchUserData call started by the listener (or, in revision 8000, by
\* initializeAuth) resolves: revision 5000 sets the whole state
\* (part_003:145-153), revision 8000 merges profile and organization if
\* still mounted (_layout.tsx:127-132, 171-175)
OldFetchReturns(f, res) ==
    /\ f \in BagToSet(old.fetches)
    /\ LET p == FetchedProfile(SessionUser(f.session), res)
           g == FetchedOrganization(SessionUser(f.session), res)
           rest == old.fetches (-) SetToBag({f}) IN
       old' = IF old.rev = "5000"
                THEN [old EXCEPT !.state = OldReplace(f.session, p, g), !.fetches = rest]
              ELSE IF old.mounted
                THEN [old EXCEPT !.state.profile = p, !.state.organization = g, !.fetches = rest]
              ELSE [old EXCEPT !.fetches = rest]
    /\ UNCHANGED <<authVars, inv, us, rq, la, track>>

\* the safety timeout's callback runs (part_003:123-133, _layout.tsx:148-151)
OldTimerFires ==
    /\ old.timer = "armed"
    /\ old' = IF old.rev = "5000"
                THEN [old EXCEPT !.state = OldReplace(0, 0, 0), !.timer = "fired"]
              ELSE [old EXCEPT !.state.loading = FALSE, !.state.initialized = TRUE,
                               !.timer = "fired"]
    /\ UNCHANGED <<authVars, inv, us, rq, la, track>>

\* the effect's cleanup (part_003:166-170, _layout.tsx:194-198)
OldTeardown ==
    /\ old.mounted
    /\ old' = [old EXCEPT !.mounted = FALSE,
                          !.timer = IF @ = "armed" THEN "cleared" ELSE @]
    /\ UNCHANGED <<authVars, inv, us, rq, la, track>>

TimerInit ==
    /\ Parked
    /\ \E rev \in Revisions, sess \in {0, 1} : old = [OldStart(rev) EXCEPT !.authSession = sess]
    /\ us = UsIdle /\ rq = RqIdle /\ la = LaIdle

TimerNext ==
    \/ \E res \in {"session", "throw"} : OldGetSessionReturns(res)
    \/ \E res \in FetchResults : OldInitFetchReturns(res)
    \/ \E event \in {"SIGNED_IN", "SIGNED_OUT", "TOKEN_REFRESHED"} : OldAuthEvent(event)
    \/ \E f \in BagToSet(old.fetches), res \in FetchResults : OldFetchReturns(f, res)
    \/ OldTimerFires
    \/ OldTeardown

TimerSpec == TimerInit /\ [][TimerNext]_vars

\* ------------------------------------------------------------ AdminUsersScreen
\* useAuth() gives the screen another profile value: null (0) or the
\* admin's own (users/index.tsx:30)
UsProfileChanges(p) ==
    /\ p # us.profile
    /\ us' = [us EXCEPT !.profile = p, !.op = "useAuth"]
    /\ UNCHANGED <<authVars, inv, old, rq, la, track>>

\* another admin's client stores a role
UsOtherAdminUpdates(u, role) ==
    /\ us.roles[u] # role
    /\ us' = [us EXCEPT !.roles[u] = role, !.op = "other"]
    /\ UNCHANGED <<authVars, inv, old, rq, la, track>>

\* onRefresh / focus: fetchUsers runs and its query returns the rows
\* (users/index.tsx:45-65)
UsFetchUsers ==
    /\ us.profile # 0
    /\ us.users # us.roles
    /\ us' = [us EXCEPT !.users = us.roles, !.op = "fetchUsers"]
    /\ UNCHANGED <<authVars, inv, old, rq, la, track>>

\* a row of the list is pressed (users/index.tsx:98-102, 137)
handleEditRole(u) ==
    /\ ~us.dialog.editRoleModalVisible
    /\ us' = [us EXCEPT !.dialog.userToEdit = [id |-> u, role |-> us.users[u]],
                        !.dialog.newRole = us.users[u],
                        !.dialog.editRoleModalVisible = TRUE,
                        !.op = "handleEditRole"]
    /\ UNCHANGED <<authVars, inv, old, rq, la, track>>

\* a role option of the dialog is pressed (users/index.tsx:281, 300)
setNewRole(role) ==
    /\ us.dialog.editRoleModalVisible
    /\ us.dialog.newRole # role
    /\ us' = [us EXCEPT !.dialog.newRole = role, !.op = "setNewRole"]
    /\ UNCHANGED <<authVars, inv, old, rq, la, track>>

\* Cancel is pressed (users/index.tsx:318-323)
UsCancel ==
    /\ us.dialog.editRoleModalVisible
    /\ us' = [us EXCEPT !.dialog.editRoleModalVisible = FALSE,
                        !.dialog.userToEdit = NoUser, !.op = "cancel"]
    /\ UNCHANGED <<authVars, inv, old, rq, la, track>>

\* mutant: handleUpdateRole without the self-demotion check
handleUpdateRole_NoSelfCheck ==
    /\ us.dialog.editRoleModalVisible /\ ~us.dialog.updatingRole
    /\ LET d == us.dialog IN
       IF d.userToEdit = NoUser
         THEN us' = [us EXCEPT !.op = "handleUpdateRole"]
       ELSE us' = [us EXCEPT !.dialog.updatingRole = TRUE,
                             !.pc = "update",
                             !.pending = [id |-> d.userToEdit.id, role |-> d.newRole,
                                          profile |-> us.profile],
                             !.op = "handleUpdateRole"]
    /\ UNCHANGED <<authVars, inv, old, rq, la, track>>

\* Save is pressed (enabled while updatingRole is false): handleUpdateRole
\* runs to its first await, the update request, or returns
\* (users/index.tsx:104-119, 328-330)
handleUpdateRole ==
    /\ us.dialog.editRoleModalVisible /\ ~us.dialog.updatingRole
    /\ LET d == us.dialog IN
       IF d.userToEdit = NoUser
         THEN us' = [us EXCEPT !.op = "handleUpdateRole"]
       ELSE IF d.userToEdit.id = us.profile /\ d.newRole # "admin"
         THEN us' = [us EXCEPT !.alert = "You cannot remove your own admin privileges",
                               !.op = "handleUpdateRole"]
       ELSE us' = [us EXCEPT !.dialog.updatingRole = TRUE,
                             !.pc = "update",
                             !.pending = [id |-> d.userToEdit.id, role |-> d.newRole,
                                          profile |-> us.profile],
                             !.op = "handleUpdateRole"]
    /\ UNCHANGED <<authVars, inv, old, rq, la, track>>

\* the update request returns (users/index.tsx:120-131): on success the
\* dialog is closed and fetchUsers awaited; on error the catch block alerts
\* and finally resets updatingRole
UsUpdateReturns(res) ==
    /\ us.pc = "update"
    /\ us' = IF res = "ok"
               THEN [us EXCEPT !.roles[us.pending.id] = us.pending.role,
                               !.alert = "Role updated successfully",
                               !.dialog.editRoleModalVisible = FALSE,
                               !.dialog.userToEdit = NoUser,
                               !.pc = "fetch", !.op = "updateReturns"]
             ELSE [us EXCEPT !.alert = "Failed to update role",
                             !.dialog.updatingRole = FALSE,
                             !.pending = NoUpdate,
                             !.pc = "idle", !.op = "updateReturns"]
    /\ UNCHANGED <<authVars, inv, old, rq, la, track>>

\* the fetchUsers call handleUpdateRole awaits returns (users/index.tsx:45-65,
\* 125, 129-131): the list is replaced unless the profile is null or the
\* query failed, and updatingRole is reset
UsFetchReturns(res) ==
    /\ us.pc = "fetch"
    /\ us' = [us EXCEPT !.users = IF res = "ok" /\ us.profile # 0 THEN us.roles ELSE @,
                        !.dialog.updatingRole = FALSE,
                        !.pending = NoUpdate,
                        !.pc = "idle", !.op = "fetchReturns"]
    /\ UNCHANGED <<authVars, inv, old, rq, la, track>>

UsersInit ==
    /\ Parked
    /\ \E r \in Roles : us = UsStart([u \in Users |-> IF u = 1 THEN "admin" ELSE r])
    /\ old = OldIdle /\ rq = RqIdle /\ la = LaIdle

UsersNext ==
    \/ \E p \in {0, 1} : UsProfileChanges(p)
    \/ \E u \in Users, role \in Roles : UsOtherAdminUpdates(u, role)
    \/ UsFetchUsers
    \/ \E u \in Users : handleEditRole(u)
    \/ \E role \in Roles : setNewRole(role)
    \/ UsCancel
    \/ handleUpdateRole
    \/ \E res \in {"ok", "error"} : UsUpdateReturns(res)
    \/ \E res \in {"ok", "error"} : UsFetchReturns(res)

UsersSpec == UsersInit /\ [][UsersNext]_vars

\* ------------------------------------------------------------ request approval
\* the handler of client c is over: its list is fetched again
\* (requests/index.tsx:161-163, part_001:270-271) and no longer offers a
\* request that is not pending (requests/index.tsx:261-262, part_001:165)
RqDone(c, status) ==
    [rq.clients[c] EXCEPT !.pc = "idle", !.listed = (status = "pending"),
                          !.existingAssignment = NoAssignment]

\* requests screen: the card of the request, pending in the client's list,
\* is pressed and Approve or Deny chosen; handleRespond runs to its first
\* await, the status update (requests/index.tsx:97-117, 258-263)
handleRespond(c, approved) ==
    /\ rq.clients[c].kind = "requests" /\ rq.clients[c].listed /\ rq.clients[c].pc = "idle"
    /\ rq.clients[c].calls < MaxResponses
    /\ rq' = [rq EXCEPT !.clients[c].pc = "status", !.clients[c].approved = approved,
                        !.clients[c].calls = @ + 1]
    /\ UNCHANGED <<authVars, inv, old, us, la, track>>

\* dashboard: Approve is pressed; handleApproveRequest runs to its first
\* await, the item_assignments insert (part_001:240-254)
handleApproveRequest(c) ==
    /\ rq.clients[c].kind = "dashboard" /\ rq.clients[c].listed /\ rq.clients[c].pc = "idle"
    /\ rq.clients[c].calls < MaxResponses
    /\ rq' = [rq EXCEPT !.clients[c].pc = "insert", !.clients[c].approved = TRUE,
                        !.clients[c].calls = @ + 1]
    /\ UNCHANGED <<authVars, inv, old, us, la, track>>

\* dashboard: Deny is pressed; handleDenyRequest runs to its status update
\* (part_001:281-294)
handleDenyRequest(c) ==
    /\ rq.clients[c].kind = "dashboard" /\ rq.clients[c].listed /\ rq.clients[c].pc = "idle"
    /\ rq.clients[c].calls < MaxResponses
    /\ rq' = [rq EXCEPT !.clients[c].pc = "status", !.clients[c].approved = FALSE,
                        !.clients[c].calls = @ + 1]
    /\ UNCHANGED <<authVars, inv, old, us, la, track>>

\* dashboard: the item_assignments insert returns (part_001:246-256); on
\* success the status update is issued
RqInsertReturns(c, res) ==
    /\ rq.clients[c].pc = "insert"
    /\ rq' = IF res = "ok"
               THEN [rq EXCEPT !.rows = Append(@, QuantityRequested),
                               !.added = @ + 1,
                               !.clients[c].pc = "status"]
             ELSE [rq EXCEPT !.clients[c].pc = "idle"]
    /\ UNCHANGED <<authVars, inv, old, us, la, track>>

\* the update of the request's row, `.eq('id', request.id)`, returns
\* (requests/index.tsx:107-131, part_001:258-278, 285-301)
RqStatusReturns(c, res) ==
    /\ rq.clients[c].pc = "status"
    /\ LET cl == rq.clients[c]
           status == IF cl.approved THEN "approved" ELSE "denied" IN
       rq' = IF res = "error"
               THEN [rq EXCEPT !.clients[c].pc = "idle"]
             ELSE IF cl.kind = "requests" /\ cl.approved
               THEN [rq EXCEPT !.status = status,
                               !.left = @ + (IF rq.status = "pending" THEN 1 ELSE 0),
                               !.clients[c].pc = "select"]
             ELSE [rq EXCEPT !.status = status,
                             !.left = @ + (IF rq.status = "pending" THEN 1 ELSE 0),
                             !.clients[c] = RqDone(c, status)]
    /\ UNCHANGED <<authVars, inv, old, us, la, track>>

\* requests screen: the `.single()` query for the assignment returns its row,
\* or null when there is not exactly one row or the query fails
\* (requests/index.tsx:122-129)
RqSelectReturns(c, res) ==
    /\ rq.clients[c].pc = "select"
    /\ res = "row" => Len(rq.rows) = 1
    /\ rq' = [rq EXCEPT !.clients[c].pc = "assign",
                        !.clients[c].existingAssignment =
                            IF res = "row" THEN [row |-> 1, quantity_assigned |-> rq.rows[1]]
                            ELSE NoAssignment]
    /\ UNCHANGED <<authVars, inv, old, us, la, track>>

\* requests screen: the update of the existing assignment, or the insert
\* of a new one, returns; its error is not looked at
\* (requests/index.tsx:131-148)
RqAssignReturns(c, res) ==
    /\ rq.clients[c].pc = "assign"
    /\ LET e == rq.clients[c].existingAssignment IN
       rq' = IF res = "error"
               THEN [rq EXCEPT !.clients[c].pc = "history"]
             ELSE IF e # NoAssignment
               THEN [rq EXCEPT !.rows[e.row] = e.quantity_assigned + QuantityRequested,
                               !.added = @ + 1,
                               !.clients[c].pc = "history"]
             ELSE [rq EXCEPT !.rows = Append(@, QuantityRequested),
                             !.added = @ + 1,
                             !.clients[c].pc = "history"]
    /\ UNCHANGED <<authVars, inv, old, us, la, track>>

\* requests screen: the location_history insert returns (its error is not
\* looked at), the alert is shown and the list fetched again
\* (requests/index.tsx:150-163)
RqHistoryReturns(c) ==
    /\ rq.clients[c].pc = "history"
    /\ rq' = [rq EXCEPT !.clients[c] = RqDone(c, rq.status)]
    /\ UNCHANGED <<authVars, inv, old, us, la, track>>

\* the client's list is fetched again (focus, pull to refresh)
RqRefresh(c) ==
    /\ rq.clients[c].pc = "idle"
    /\ rq.clients[c].listed # (rq.status = "pending")
    /\ rq' = [rq EXCEPT !.clients[c].listed = (rq.status = "pending")]
    /\ UNCHANGED <<authVars, inv, old, us, la, track>>

RequestsInit ==
    /\ Parked
    /\ \E rows \in {<< >>, <<QuantityRequested>>}, kinds \in [Clients -> {"requests", "dashboard"}] :
          rq = RqStart(rows, kinds)
    /\ old = OldIdle /\ us = UsIdle /\ la = LaIdle

RequestsNext ==
    \/ \E c \in Clients, approved \in BOOLEAN : handleRespond(c, approved)
    \/ \E c \in Clients : handleApproveRequest(c)
    \/ \E c \in Clients : handleDenyRequest(c)
    \/ \E c \in Clients, res \in {"ok", "error"} : RqInsertReturns(c, res)
    \/ \E c \in Clients, res \in {"ok", "error"} : RqStatusReturns(c, res)
    \/ \E c \in Clients, res \in {"row", "null"} : RqSelectReturns(c, res)
    \/ \E c \in Clients, res \in {"ok", "error"} : RqAssignReturns(c, res)
    \/ \E c \in Clients : RqHistoryReturns(c)
    \/ \E c \in Clients : RqRefresh(c)

RequestsSpec == RequestsInit /\ [][RequestsNext]_vars

\* ------------------------------------------------------------ my-locations actions
\* Submit is pressed in the action dialog of client c with the given action
\* type and quantity text; handleSubmitAction runs to its first await, the
\* location_history insert, or returns after an alert
\* (my-locations.tsx:193-221)
handleSubmitAction(c, actionType, actionQuantity) ==
    /\ la.clients[c].pc = "idle"
    /\ la.clients[c].calls < MaxActions
    /\ LET qty == ParseInt(actionQuantity)
           cl == la.clients[c]
           quantityChange == IF actionType = "restock" THEN qty ELSE 0 - qty IN
       IF ParsesToNaN(actionQuantity)
         THEN la' = [la EXCEPT !.op = "invalid", !.clients[c].calls = @ + 1]
       ELSE IF qty < 1
         THEN la' = [la EXCEPT !.op = "invalid", !.clients[c].calls = @ + 1]
       ELSE IF qty > cl.snapshot
         THEN la' = [la EXCEPT !.op = "exceeds", !.clients[c].calls = @ + 1]
       ELSE la' = [la EXCEPT !.op = "submitted",
                             !.clients[c].calls = @ + 1,
                             !.clients[c].pc = "history",
                             !.clients[c].quantityChange = quantityChange,
                             !.clients[c].newQuantity = cl.snapshot + quantityChange]
    /\ UNCHANGED <<authVars, inv, old, us, rq, track>>

\* the location_history insert returns (my-locations.tsx:213-229): on
\* success the row is recorded and the assignment update issued
LaHistoryReturns(c, res) ==
    /\ la.clients[c].pc = "history"
    /\ la' = IF res = "ok"
               THEN [la EXCEPT !.changes = @ + la.clients[c].quantityChange,
                               !.clients[c].pc = "update", !.op = "none"]
             ELSE [la EXCEPT !.clients[c].pc = "idle", !.op = "none"]
    /\ UNCHANGED <<authVars, inv, old, us, rq, track>>

\* the item_assignments update returns (my-locations.tsx:225-235): on
\* success quantity_assigned is the client's newQuantity and fetchData is
\* awaited
LaUpdateReturns(c, res) ==
    /\ la.clients[c].pc = "update"
    /\ la' = IF res = "ok"
               THEN [la EXCEPT !.quantity_assigned = la.clients[c].newQuantity,
                               !.clients[c].pc = "fetch", !.op = "none"]
             ELSE [la EXCEPT !.clients[c].pc = "idle", !.op = "none"]
    /\ UNCHANGED <<authVars, inv, old, us, rq, track>>

\* fetchData returns: the client's assignments are the database's
\* (my-locations.tsx:235-241)
LaFetchReturns(c) ==
    /\ la.clients[c].pc = "fetch"
    /\ la' = [la EXCEPT !.clients[c].snapshot = la.quantity_assigned,
                        !.clients[c].pc = "idle", !.op = "none"]
    /\ UNCHANGED <<authVars, inv, old, us, rq, track>>

\* the client's data is fetched again (focus, pull to refresh)
LaRefresh(c) ==
    /\ la.clients[c].pc = "idle"
    /\ la.clients[c].snapshot # la.quantity_assigned
    /\ la' = [la EXCEPT !.clients[c].snapshot = la.quantity_assigned, !.op = "none"]
    /\ UNCHANGED <<authVars, inv, old, us, rq, track>>

LocationsInit ==
    /\ Parked
    /\ \E q \in 0..MaxQuantity : la = LaStart(q)
    /\ old = OldIdle /\ us = UsIdle /\ rq = RqIdle

LocationsNext ==
    \/ \E c \in Clients, actionType \in LocationActions, actionQuantity \in ActionQuantities :
          handleSubmitAction(c, actionType, actionQuantity)
    \/ \E c \in Clients, res \in {"ok", "error"} : LaHistoryReturns(c, res)
    \/ \E c \in Clients, res \in {"ok", "error"} : LaUpdateReturns(c, res)
    \/ \E c \in Clients : LaFetchReturns(c)
    \/ \E c \in Clients : LaRefresh(c)

LocationsSpec == LocationsInit /\ [][LocationsNext]_vars

\* ------------------------------------------------------------ specification
Next ==
    \/ \E res \in {"session", "error", "throw"} : InitializeReturns(res)
    \/ \E u \in Users : SignedIn(u)
    \/ TokenRefreshed
    \/ SignedOut
    \/ Teardown
    \/ RefreshProfile
    \/ \E run \in BagToSet(runs), res \in {"row", "error", "throw"} : ProfileQueryReturns(run, res)
    \/ \E run \in BagToSet(runs), res \in {"user", "null", "throw"} : GetUserReturns(run, res)
    \/ \E run \in BagToSet(runs), res \in {"ok", "error", "throw"} : InsertReturns(run, res)
    \/ \E run \in BagToSet(runs), res \in {"row", "null", "throw"} : OrganizationReturns(run, res)
    \/ CompletePasswordSetup
    \/ \E res \in {"user", "null", "throw"} : CpsGetUserReturns(res)
    \/ \E res \in {"ok", "error", "throw"} : CpsUpdateUserReturns(res)
    \/ \E res \in {"ok", "error", "throw"} : CpsInsertReturns(res)

Spec == Init /\ [][Next]_vars

RaceSpec == RaceInit /\ [][Next]_vars

\* a backend call issued by loadProfileData or completePasswordSetup returns
BackendReturns ==
    \/ \E run \in BagToSet(runs), res \in {"row", "error", "throw"} : ProfileQueryReturns(run, res)
    \/ \E run \in BagToSet(runs), res \in {"user", "null", "throw"} : GetUserReturns(run, res)
    \/ \E run \in BagToSet(runs), res \in {"ok", "error", "throw"} : InsertReturns(run, res)
    \/ \E run \in BagToSet(runs), res \in {"row", "null", "throw"} : OrganizationReturns(run, res)
    \/ \E res \in {"user", "null", "throw"} : CpsGetUserReturns(res)
    \/ \E res \in {"ok", "error", "throw"} : CpsUpdateUserReturns(res)
    \/ \E res \in {"ok", "error", "throw"} : CpsInsertReturns(res)

\* Every backend call of the loader and of completePasswordSetup returns in
\* the end.  Nothing makes getSession return or the auth client emit an
\* event, and this revision of the provider sets no timer.
FairSpec == Spec /\ WF_vars(BackendReturns)

\* ================================================================ claims

\* C1: from application start, while the provider is not torn down,
\* `initialized` eventually becomes true, even if getSession never returns
\* and no auth event is delivered.
C1_EventuallyInitialized == <>(state.initialized \/ ~isMounted)

\* C2: once `initialized` is true no operation sets it back to false, and a
\* startup whose session fetch returns has turned it true (so it changes from
\* false to true exactly once).
C2_InitializedOnce ==
    /\ [][state.initialized => state'.initialized]_vars
    /\ [](initPc = "done" => state.initialized)

\* C2 witness: a startup without auth events has initialized the state and a
\* later operation (the loader started by it) has completed
C2_Witness ==
    /\ ~handled /\ initPc = "done" /\ state.initialized
    /\ last.op = "loadProfileData"

\* C3: needsPasswordSetup = true and profile != null never hold together
\* (needsPasswordSetup is true only while no profile is resolved), after any
\* sequence of loader runs, auth events, refreshes and setup completions.
C3_SetupExcludesProfile ==
    ~(state.needsPasswordSetup = "true" /\ state.profile # NoProfile)

C9_SignedOutClears ==
    last.op = "SIGNED_OUT" =>
        /\ state.session = 0 /\ state.user = 0
        /\ state.profile = NoProfile /\ state.organization = 0
        /\ state.initialized

\* C9 witness: SIGNED_OUT was handled while a loader call of the signed-in
\* user was still in flight
C9_Witness == last.op = "SIGNED_OUT" /\ runs # EmptyBag

\* C10 as stated: `initialized` is never true while the initial session
\* fetch is in flight.
C10_InitializedAfterFetch == state.initialized => initPc # "fetching"

\* C10 amended: `initialized` is true only after the initial session fetch
\* has returned or the listener has handled an auth event.
C10_InitializedAfterFetchOrEvent == state.initialized => (initPc # "fetching" \/ handled)

\* C10 witness: the listener has initialized the state while the fetch is in flight
C10_Witness == state.initialized /\ initPc = "fetching" /\ handled

\* C11: when the listener has handled a sign-in or token-refresh event, the
\* new session and user are in AuthState with initialized = true while the
\* loader run the event started is still at its first query, having made no
\* state update; 'user set, profile still null' is then a reachable state.
C11_SessionBeforeProfile ==
    last.op = "SIGNED_IN" =>
        /\ state.session = last.userId /\ state.user = last.userId /\ state.initialized
        /\ \E run \in BagToSet(runs) :
              run.userId = last.userId /\ run.pc = "qProfile" /\ run.caller = "effect"

\* C11 witness: the event has been handled, the user is set and the profile
\* is still null
C11_Witness ==
    /\ last.op = "SIGNED_IN" /\ state.user = last.userId
    /\ state.profile = NoProfile /\ profiles[state.user].id # 0

\* C12: after the effect's cleanup no step changes AuthState.
C12_NoUpdateAfterTeardown == [][~isMounted => state' = state]_vars

\* C13: on a startup (no auth event) with a persisted session of a user whose
\* Profile has role admin, AdminScreen issues no redirect once the session
\* fetch has returned.
C13_AdminNotRedirected ==
    (/\ isMounted /\ ~handled /\ initPc = "done"
     /\ state.user # 0 /\ profiles[state.user].role = "admin") => AdminScreen \notin Routes

\* C14: while initialized is false, none of the root Index, AuthLayout and
\* SetPasswordScreen redirects.
C14_GatesWaitForInitialized ==
    (isMounted /\ ~state.initialized) =>
        /\ Index \notin Routes
        /\ AuthLayout \notin Routes
        /\ SetPasswordScreen \notin Routes

\* the handler has answered a POST whose token resolved to a user
InviteAnswered == inv.pc = "done" /\ inv.req.method = "POST" /\ inv.user # 0

\* C15: a POST with a valid bearer token whose caller has no profile or a
\* role other than admin is answered 403 and no inviteUserByEmail call is
\* made, whatever the body.
C15_NonAdminForbidden ==
    (InviteAnswered /\ profiles[inv.user].role # "admin") =>
        inv.status = 403 /\ inv.calls = <<>>

\* C15 witness: a caller with role user has been refused a request with a
\* list of addresses and metadata keys of its own
C15_Witness ==
    /\ InviteAnswered /\ profiles[inv.user].role = "user"
    /\ inv.req.body.present /\ inv.req.body.organization_id # 0
    /\ inv.req.body.emails.kind = "array" /\ Len(inv.req.body.emails.list) = 2

\* the entry of `results` for the input entry e: address as reported, and
\* whether it is valid
Reported(e) ==
    LET t == ToLowerCase(Trim(e.chars)) IN IF t # <<>> THEN t ELSE e.chars

Valid(e) ==
    LET t == ToLowerCase(Trim(e.chars)) IN t # <<>> /\ Includes(t, "@")

\* the positions of the valid entries among the first n of list l
ValidUpTo(l, n) == {j \in 1..n : Valid(l[j])}

\* C16: for an admin caller and a list of 1 to 10 strings, the answer is 200
\* with one entry of `results` per input entry, in input order; an entry that
\* is empty or lacks '@' after trimming has success:false and error "Invalid
\* email" and no inviteUserByEmail call; every valid entry, whatever came
\* before it, has its call (the k-th call is for the k-th valid entry).
C16_OneResultPerEmail ==
    LET l == inv.req.body.emails.list IN
    (/\ InviteAnswered /\ inv.profile.role = "admin"
     /\ inv.req.body.present /\ inv.req.body.emails.kind = "array"
     /\ Len(l) \in 1..MaxInvites
     /\ \A j \in 1..Len(l) : l[j].type = "string") =>
        /\ inv.status = 200
        /\ Len(inv.results) = Len(l)
        /\ \A j \in 1..Len(l) :
              /\ inv.results[j].email = Reported(l[j])
              /\ ~Valid(l[j]) => ~inv.results[j].success /\ inv.results[j].error = "Invalid email"
              /\ Valid(l[j]) => /\ inv.results[j].error # "Invalid email"
                                /\ Cardinality(ValidUpTo(l, j)) <= Len(inv.calls)
                                /\ inv.calls[Cardinality(ValidUpTo(l, j))].email = Reported(l[j])
        /\ Len(inv.calls) = Cardinality(ValidUpTo(l, Len(l)))

\* C16 witness: of a list of 10 entries the first nine were invalid and the
\* invite for the tenth was sent
C16_Witness ==
    /\ InviteAnswered /\ inv.status = 200 /\ Len(inv.results) = MaxInvites
    /\ inv.results[1].error = "Invalid email" /\ inv.results[MaxInvites].success

\* req.body.emails is missing, no array, empty or longer than 10
BadEmails(body) ==
    \/ body.emails.kind # "array"
    \/ Len(body.emails.list) = 0
    \/ Len(body.emails.list) > MaxInvites

\* the answers of the handler before the loop, without the case of an admin
\* POST
Preconditions ==
    /\ inv.req.method = "OPTIONS" => inv.status = 200 /\ inv.user = 0
    /\ inv.req.method \notin {"OPTIONS", "POST"} => inv.status = 405
    /\ (inv.req.method = "POST" /\ inv.req.authorization.scheme # "Bearer") => inv.status = 401
    /\ (/\ inv.req.method = "POST" /\ inv.req.authorization.scheme = "Bearer"
        /\ inv.user = 0) => inv.status = 401

\* C17 as stated: OPTIONS is answered 200 without authentication, another
\* method than POST 405, a POST without 'Bearer ' or with a token that
\* resolves to no user 401, an admin POST that carries no usable `emails`
\* (none at all, no array, empty, more than 10) 400; none sends an invite.
C17_PreconditionsChecked ==
    inv.pc = "done" =>
        /\ Preconditions
        /\ (InviteAnswered /\ inv.profile.role = "admin" /\ BadEmails(inv.req.body)) =>
              inv.status = 400
        /\ inv.status \in {400, 401, 405} \/ inv.req.method = "OPTIONS" => inv.calls = <<>>

\* C17 amended: the same, the admin POST having a body (an object) whose
\* `emails` is missing, no array, empty or longer than 10.
C17_PreconditionsCheckedBody ==
    inv.pc = "done" =>
        /\ Preconditions
        /\ (/\ InviteAnswered /\ inv.profile.role = "admin"
            /\ inv.req.body.present /\ BadEmails(inv.req.body)) => inv.status = 400
        /\ inv.status \in {400, 401, 405} \/ inv.req.method = "OPTIONS" => inv.calls = <<>>

\* C17 witness: an admin's list of 11 entries has been refused
C17_Witness ==
    /\ InviteAnswered /\ inv.profile.role = "admin" /\ inv.status = 400
    /\ inv.req.body.emails.kind = "array" /\ Len(inv.req.body.emails.list) = MaxInvites + 1

\* C18: every inviteUserByEmail call carries organization_id = the caller's
\* profile organization_id, invited_by = the caller's user id and
\* invited_role = 'user', whatever the body holds.
C18_InviteMetadata ==
    \A k \in 1..Len(inv.calls) :
        inv.calls[k].data = [organization_id |-> profiles[inv.user].organization_id,
                             invited_by |-> inv.user, invited_role |-> "user"]

\* C18 witness: an invite was made for a request whose body names another
\* organization and the admin role
C18_Witness ==
    /\ inv.calls # <<>> /\ inv.req.body.invited_role = "admin"
    /\ inv.req.body.organization_id # profiles[inv.user].organization_id

\* C19: no step of completePasswordSetup before its awaited loader run
\* changes AuthState, every return with an error is such a step, and the
\* insert is attempted only after updateUser returned without error and the
\* metadata held an organization_id.
C19_ErrorLeavesState ==
    /\ [][(cps' # cps /\ cps.pc # "loading" /\ cps'.pc # "loading") => state' = state]_vars
    /\ [][last'.op = "completePasswordSetup" =>
            (cps.pc \in {"getUser", "updateUser", "insert"} /\ cps'.pc = "idle"
             /\ last'.cps # "ok")]_vars
    /\ [](cps.pc = "insert" => cps.updated /\ cps.meta.organization_id # 0)

\* C19 witness: the call has returned the insert's error and
\* needsPasswordSetup is still true
C19_Witness ==
    /\ last.op = "completePasswordSetup" /\ last.cps = "profileError"
    /\ state.user = last.userId /\ state.needsPasswordSetup = "true"

C21_FetchFailureLogsOut ==
    (last.op = "initialize" /\ last.end \in {"error", "throw"}) =>
        state.initialized /\ state.session = 0 /\ state.user = 0

\* C21 amended: the step in which the initial session fetch returns an error
\* or throws sets initialized = true; after an error session = user = null,
\* after a throw session and user are what they were before the step (null
\* unless the listener had set them).
C21_FetchFailureInitializes ==
    [][(last'.op = "initialize" /\ last'.end \in {"error", "throw"}) =>
          /\ state'.initialized
          /\ last'.end = "error" => state'.session = 0 /\ state'.user = 0
          /\ last'.end = "throw" => state'.session = state.session /\ state'.user = state.user]_vars

\* C21 witness: the fetch threw after the listener had set the user
C21_Witness ==
    last.op = "initialize" /\ last.end = "throw" /\ state.initialized /\ state.user # 0

\* C22 as stated: once initialized, a signed-in invited user (invited_by in
\* the metadata, no Profile row) is sent to the set-password screen by Index
\* and is not sent to the tab stack by AuthLayout.
C22_InvitedNeverInTabs ==
    (/\ state.initialized /\ state.user # 0
     /\ metadata[state.user].invited_by # 0
     /\ profiles[state.user].id = 0) =>
        Index = "/(auth)/set-password" /\ AuthLayout # "/(app)/(tabs)"

\* C23: the step in which a loadProfileData call ends unresolved (no
\* actionable metadata, insert failed, or a call threw) leaves every AuthState
\* field and the backend as they were, ends that call, and starts no other.
C23_UnresolvedLeavesState ==
    [][(last'.op = "loadProfileData" /\ last'.end \in {"nometa", "insertFailed", "threw"}) =>
          /\ state' = state
          /\ profiles' = profiles /\ metadata' = metadata
          /\ BagCardinality(runs') = BagCardinality(runs) - 1]_vars

\* C23 witnesses: a call ended unresolved in each of the three ways, for
\* the signed-in user
C23_Witness ==
    /\ last.op = "loadProfileData" /\ last.end = "insertFailed"
    /\ state.user = last.userId /\ state.profile = NoProfile

C23_WitnessNoMeta == last.op = "loadProfileData" /\ last.end = "nometa" /\ state.user = last.userId

C23_WitnessThrew ==
    last.op = "loadProfileData" /\ last.end = "threw" /\ state.profile # NoProfile

\* C24 as stated: when a loadProfileData call writes AuthState after another
\* call wrote it while the first was in flight, and no call is left, profile,
\* organization and needsPasswordSetup are the values of that last write: the
\* invited user's (no profile, no organization, true) or the loaded profile's
\* (the user's profile, false), not the profile of one and the flag of the other.
C24_LastWriteWins ==
    (/\ last.op = "loadProfileData" /\ last.raced # "none"
     /\ last.end \in {"invited", "loaded"} /\ runs = EmptyBag) =>
        /\ last.end = "invited" =>
              /\ state.needsPasswordSetup = "true"
              /\ state.profile = NoProfile /\ state.organization = 0
        /\ last.end = "loaded" =>
              /\ state.needsPasswordSetup = "false"
              /\ state.profile.id = last.userId

\* C25 as stated: in the revisions with a safety timer, when initializeAuth
\* has completed with a session before the timer fires, the timer's callback
\* leaves session, user, profile and organization unchanged.
C25_TimerIsFallback ==
    [][(old.timer = "armed" /\ old'.timer = "fired" /\ old.boot = "session") =>
          /\ old'.state.session = old.state.session
          /\ old'.state.user = old.state.user
          /\ old'.state.profile = old.state.profile
          /\ old'.state.organization = old.state.organization]_vars

\* C25 in the 8000 ms revision alone
C25_TimerIsFallback8000 ==
    [][(old.rev = "8000" /\ old.timer = "armed" /\ old'.timer = "fired") =>
          /\ old'.state.session = old.state.session
          /\ old'.state.user = old.state.user
          /\ old'.state.profile = old.state.profile
          /\ old'.state.organization = old.state.organization]_vars

C27_DerivedFieldsOfCurrentUser ==
    /\ state.profile # NoProfile => state.user # 0 /\ state.profile.id = state.user
    /\ state.needsPasswordSetup = "true" => state.user # 0

\* C28 as stated: once the listener has set session and user, they become
\* null only when SIGNED_OUT is handled.
C28_SessionKeptUntilSignedOut ==
    [][(state.user # 0 /\ (state'.user = 0 \/ state'.session = 0)) => last'.op = "SIGNED_OUT"]_vars


\* C29 as stated: for the request, quantity_requested is added to the
\* location's assigned quantity at most once and the status leaves pending
\* at most once, whatever two admin clients do from their lists.
C29_ApprovedOnce == rq.added <= 1 /\ rq.left <= 1

\* the status part alone: the status leaves pending at most once
C29_LeavesPendingOnce == rq.left <= 1


\* C30 as stated: when no handleSubmitAction call is in flight, the
\* assignment's quantity_assigned is its initial value plus the sum of
\* quantity_change over the location_history rows recorded; and a call whose
\* quantity exceeds the client's snapshot of quantity_assigned writes nothing.
C30_QuantityMatchesHistory ==
    /\ []((\A c \in Clients : la.clients[c].pc = "idle") =>
              la.quantity_assigned = la.initial + la.changes)
    /\ [][la'.op = "exceeds" =>
              /\ la'.quantity_assigned = la.quantity_assigned
              /\ la'.changes = la.changes
              /\ \A c \in Clients : la'.clients[c].pc = la.clients[c].pc]_vars

\* the second part alone: a call whose quantity exceeds the snapshot starts
\* no request and changes neither the assignment nor the history
C30_OverSnapshotWritesNothing ==
    [][la'.op = "exceeds" =>
          /\ la'.quantity_assigned = la.quantity_assigned
          /\ la'.changes = la.changes
          /\ \A c \in Clients : la'.clients[c].pc = la.clients[c].pc]_vars

====
